---- MODULE Spec2Model ----
(***************************************************************************)
(* Model of the asynchronous request orchestration of tkr_utils:           *)
(*   helper_anthropic/async_manager.py  CircuitBreaker, AsyncRequestManager *)
(*   helper_anthropic/processor.py      RequestProcessor                    *)
(*                                                                         *)
(* The program runs on one asyncio event loop: a task runs without         *)
(* interruption until it awaits something that is not ready.  An action of *)
(* this model is one such uninterrupted run of one task.  The asyncio      *)
(* primitives are modelled by what CPython's asyncio does:                 *)
(*   asyncio.Lock       uncontended acquire does not suspend; not          *)
(*                      re-entrant                                         *)
(*   asyncio.Semaphore  acquire suspends while the value is 0; release     *)
(*                      adds 1 to the value and never raises (only         *)
(*                      BoundedSemaphore raises ValueError)                *)
(*   asyncio.TaskGroup  a created task first runs when its creator         *)
(*                      suspends; leaving the group waits for all tasks    *)
(* Time is time.time() in whole seconds.                                   *)
(***************************************************************************)
EXTENDS Integers, Sequences, FiniteSets, TLC

VARIABLES
    request_manager,  \* the AsyncRequestManager (with its CircuitBreaker)
    now,              \* time.time()
    ticks,            \* number of clock advances so far (bounds the clock)
    stats,            \* RequestProcessor.stats
    pc,               \* where the driving task stands
    requests,         \* process_batch: the argument
    chunks,           \* process_batch: chunks
    ci,               \* process_batch: i of enumerate(chunks, 1); 0 before
    rj,               \* process_chunk: number of requests of chunk offered
    responses,        \* process_chunk: responses
    tasks,            \* process_chunk: tasks (request ids, creation order)
    all_responses,    \* process_batch: all_responses
    task,             \* per request id: the task of _process_single_request
    last,             \* the latest manager call: [op, ret, fault]
    held,             \* slots handed out by acquire_permit and not given back
    hist,             \* what the calls made so far did (SpecBreaker, SpecWindow)
    other             \* a second process_batch run on the processor (SpecPair)

vars == <<request_manager, now, ticks, stats, pc, requests, chunks, ci, rj,
          responses, tasks, all_responses, task, last, held, hist, other>>

(***************************************************************************)
(* Bounds of the model.                                                    *)
(***************************************************************************)
MaxRequests == 3      \* longest request list
MaxChunkSize == 2     \* largest chunk_size
MaxConcurrent == 2    \* largest max_concurrent
MaxRpm == 2           \* largest requests_per_minute
MaxTicks == 1         \* clock advances in one behaviour
MaxFailures == 6      \* record_failure() calls made from outside a batch
MaxSemaphore == 4     \* largest semaphore value followed (SpecApi)
MaxPartTicks == 4     \* clock advances in SpecBreaker and SpecWindow
MaxChecks == 4        \* check_rate_limits() calls in SpecWindow
MaxTokens == 1        \* largest tokens argument of check_rate_limits()
MaxTpm == 2           \* largest tokens_per_minute in SpecWindow
AbortChunkSize == 4   \* chunk_size in SpecAbort: a call can be in flight at an abort

(***************************************************************************)
(* Program constants.                                                      *)
(***************************************************************************)
failure_threshold == 5
reset_timeout == 60
half_open_timeout == 5
WindowSeconds == 60
NoSemaphore == -1               \* self._semaphore = None
DefaultTokensPerMinute == 1000
DefaultRequestsPerMinute == 60

\* The clock advances by one of the two timeouts; this reaches elapsed times
\* equal to, below and above each of the thresholds 5 and 60.
TickSteps == {half_open_timeout, reset_timeout}

(***************************************************************************)
(* CircuitBreaker (async_manager.py 19-61).  A breaker is a record         *)
(* [state, failures, last_failure_time]; every method runs under           *)
(* self._lock with no await inside, so each is one atomic step.            *)
(***************************************************************************)
CircuitBreaker ==
    [state |-> "closed", failures |-> 0, last_failure_time |-> 0]

\* A breaker that opens one failure late (> in place of >=).
record_failure_off_by_one(cb, t) ==
    LET n == cb.failures + 1
    IN  [state |-> IF n > failure_threshold THEN "open" ELSE cb.state,
         failures |-> n,
         last_failure_time |-> t]

\* A breaker that opens only out of the closed state.
record_failure_from_closed(cb, t) ==
    LET n == cb.failures + 1
    IN  [state |-> IF n >= failure_threshold /\ cb.state = "closed"
                   THEN "open" ELSE cb.state,
         failures |-> n,
         last_failure_time |-> t]

\* A breaker that starts its count again when it opens.
record_failure_restarting_count(cb, t) ==
    LET n == cb.failures + 1
    IN  IF n >= failure_threshold
        THEN [state |-> "open", failures |-> 0, last_failure_time |-> t]
        ELSE [state |-> cb.state, failures |-> n, last_failure_time |-> t]

\* A breaker that keeps the time of the failure that opened it.
record_failure_stamps_opening(cb, t) ==
    LET n == cb.failures + 1
    IN  [state |-> IF n >= failure_threshold THEN "open" ELSE cb.state,
         failures |-> n,
         last_failure_time |-> IF cb.state = "open"
                               THEN cb.last_failure_time ELSE t]

record_failure(cb, t) ==
    LET n == cb.failures + 1
    IN  [state |-> IF n >= failure_threshold THEN "open" ELSE cb.state,
         failures |-> n,
         last_failure_time |-> t]

\* A breaker that probes already when reset_timeout has just elapsed
\* (>= in place of >).
can_execute_at_timeout(cb, t) ==
    IF cb.state = "closed" THEN [ret |-> TRUE, cb |-> cb]
    ELSE IF cb.state = "open"
    THEN IF t - cb.last_failure_time >= reset_timeout
         THEN [ret |-> TRUE, cb |-> [cb EXCEPT !.state = "half-open"]]
         ELSE [ret |-> FALSE, cb |-> cb]
    ELSE [ret |-> t - cb.last_failure_time > half_open_timeout, cb |-> cb]

\* The result of can_execute and the breaker it leaves.
can_execute(cb, t) ==
    IF cb.state = "closed" THEN [ret |-> TRUE, cb |-> cb]
    ELSE IF cb.state = "open"
    THEN IF t - cb.last_failure_time > reset_timeout
         THEN [ret |-> TRUE, cb |-> [cb EXCEPT !.state = "half-open"]]
         ELSE [ret |-> FALSE, cb |-> cb]
    ELSE [ret |-> t - cb.last_failure_time > half_open_timeout, cb |-> cb]

\* A breaker that closes but keeps its failure count.
record_success_keeps_count(cb) ==
    IF cb.state = "half-open"
    THEN [cb EXCEPT !.state = "closed"]
    ELSE cb

record_success(cb) ==
    IF cb.state = "half-open"
    THEN [cb EXCEPT !.state = "closed", !.failures = 0]
    ELSE cb

(***************************************************************************)
(* AsyncRequestManager (async_manager.py 63-212).  A manager is a record   *)
(* of the object's fields; permits_lock is TRUE while self._permits_lock   *)
(* is held by a task that is suspended (only cleanup() does that).         *)
(***************************************************************************)
AsyncRequestManager(rate_limits, max_concurrent, chunk_size, t) ==
    [rate_limits |-> rate_limits,
     max_concurrent |-> max_concurrent,
     chunk_size |-> chunk_size,
     circuit_breaker |-> CircuitBreaker,
     semaphore |-> NoSemaphore,
     requests_made |-> 0,
     tokens_used |-> 0,
     last_reset |-> t,
     active_permits |-> 0,
     permits_lock |-> FALSE]

\* A slip: the semaphore sized by chunk_size instead of max_concurrent.
semaphore_sized_by_chunk(m) ==
    IF m.semaphore = NoSemaphore
    THEN [m EXCEPT !.semaphore = m.chunk_size]
    ELSE m

\* The lazy property: the semaphore is created on first use.
semaphore(m) ==
    IF m.semaphore = NoSemaphore
    THEN [m EXCEPT !.semaphore = m.max_concurrent]
    ELSE m

\* A slip: range(0, len(requests) - chunk_size + 1, chunk_size), which drops
\* the requests after the last full chunk.
chunk_requests_full_only(reqs, chunk_size) ==
    [c \in 1..(Len(reqs) \div chunk_size) |->
        SubSeq(reqs, (c - 1) * chunk_size + 1, c * chunk_size)]

\* requests[i : i + chunk_size] for i in range(0, len(requests), chunk_size).
\* range() with a negative step is empty; a step of 0 raises ValueError,
\* which callers guard against (chunk_size >= 1 in every specification here).
\* Chunks that overlap by one request (slice i : i + chunk_size + 1).
chunk_requests_overlapping(reqs, chunk_size) ==
    LET n == Len(reqs)
        starts == IF chunk_size > 0
                  THEN {i \in 0..(n - 1) : i % chunk_size = 0}
                  ELSE {}
        hi(i) == IF i + chunk_size + 1 < n THEN i + chunk_size + 1 ELSE n
    IN  [c \in 1..Cardinality(starts) |->
            SubSeq(reqs, (c - 1) * chunk_size + 1, hi((c - 1) * chunk_size))]

chunk_requests(reqs, chunk_size) ==
    LET n == Len(reqs)
        starts == IF chunk_size > 0
                  THEN {i \in 0..(n - 1) : i % chunk_size = 0}
                  ELSE {}
        hi(i) == IF i + chunk_size < n THEN i + chunk_size ELSE n
    IN  [c \in 1..Cardinality(starts) |->
            SubSeq(reqs, (c - 1) * chunk_size + 1, hi((c - 1) * chunk_size))]

\* The result of check_rate_limits and the manager it leaves.
\* A window that admits one request more than requests_per_minute
\* (> in place of >=).
check_rate_limits_one_over(m, tokens, t) ==
    IF t - m.last_reset >= WindowSeconds
    THEN [ret |-> TRUE,
          m |-> [m EXCEPT !.requests_made = 0, !.tokens_used = 0,
                          !.last_reset = t]]
    ELSE IF \/ m.requests_made > m.rate_limits.requests_per_minute
            \/ m.tokens_used + tokens >= m.rate_limits.tokens_per_minute
    THEN [ret |-> FALSE, m |-> m]
    ELSE [ret |-> TRUE,
          m |-> [m EXCEPT !.requests_made = @ + 1, !.tokens_used = @ + tokens]]

check_rate_limits(m, tokens, t) ==
    IF t - m.last_reset >= WindowSeconds
    THEN [ret |-> TRUE,
          m |-> [m EXCEPT !.requests_made = 0, !.tokens_used = 0,
                          !.last_reset = t]]
    ELSE IF \/ m.requests_made >= m.rate_limits.requests_per_minute
            \/ m.tokens_used + tokens >= m.rate_limits.tokens_per_minute
    THEN [ret |-> FALSE, m |-> m]
    ELSE [ret |-> TRUE,
          m |-> [m EXCEPT !.requests_made = @ + 1, !.tokens_used = @ + tokens]]

\* A slip: the permit is given up and its slot in the gate is kept.
release_permit_keeps_slot(m) ==
    IF m.semaphore = NoSemaphore THEN [ret |-> "done", m |-> m]
    ELSE IF m.permits_lock THEN [ret |-> "blocked", m |-> m]
    ELSE [ret |-> "done",
          m |-> [m EXCEPT !.active_permits = IF @ > 0 THEN @ - 1 ELSE @]]

\* A slip: the semaphore is released and active_permits is left as it was.
release_permit_uncounted(m) ==
    IF m.semaphore = NoSemaphore THEN [ret |-> "done", m |-> m]
    ELSE [ret |-> IF m.permits_lock THEN "blocked" ELSE "done",
          m |-> [m EXCEPT !.semaphore = @ + 1]]

\* release_permit.  ret is "done" when the call returns and "blocked" when it
\* is left waiting for self._permits_lock after it released the semaphore.
release_permit(m) ==
    IF m.semaphore = NoSemaphore THEN [ret |-> "done", m |-> m]
    ELSE LET m1 == [m EXCEPT !.semaphore = @ + 1]
         IN  IF m1.permits_lock THEN [ret |-> "blocked", m |-> m1]
             ELSE [ret |-> "done",
                   m |-> [m1 EXCEPT !.active_permits =
                                        IF @ > 0 THEN @ - 1 ELSE @]]

\* The places of acquire_permit's try block where an exception can be raised.
Faults == {"none", "semaphore", "permits_lock", "rate_limits"}

\* The handlers of acquire_permit end in release_permit() and return False.
release_and_deny(m) ==
    LET r == release_permit(m)
    IN  [ret |-> IF r.ret = "done" THEN "false" ELSE "blocked", m |-> r.m]

\* acquire_permit from the semaphore on (lines 146-161), for a caller that
\* passed can_execute and does not have to wait: with fault = "semaphore"
\* semaphore.acquire() raises before a slot is taken, otherwise the semaphore
\* has a free slot.  ret is "true", "false" or "blocked".
\* A slip: the rate check is made with one token for each request.
acquire_slot_counting_tokens(m, t, fault) ==
    LET m0 == semaphore(m)
        m1 == [m0 EXCEPT !.semaphore = @ - 1]
        m2 == [m1 EXCEPT !.active_permits = @ + 1]
        rl == check_rate_limits(m2, 1, t)
    IN  IF fault = "semaphore" THEN release_and_deny(m0)
        ELSE IF m1.permits_lock THEN [ret |-> "blocked", m |-> m1]
        ELSE IF fault = "permits_lock" THEN release_and_deny(m1)
        ELSE IF fault = "rate_limits" THEN release_and_deny(m2)
        ELSE IF rl.ret THEN [ret |-> "true", m |-> rl.m]
        ELSE release_and_deny(rl.m)

acquire_slot(m, t, fault) ==
    LET m0 == semaphore(m)
        m1 == [m0 EXCEPT !.semaphore = @ - 1]
        m2 == [m1 EXCEPT !.active_permits = @ + 1]
        rl == check_rate_limits(m2, 0, t)
    IN  IF fault = "semaphore" THEN release_and_deny(m0)
        ELSE IF m1.permits_lock THEN [ret |-> "blocked", m |-> m1]
        ELSE IF fault = "permits_lock" THEN release_and_deny(m1)
        ELSE IF fault = "rate_limits" THEN release_and_deny(m2)
        ELSE IF rl.ret THEN [ret |-> "true", m |-> rl.m]
        ELSE release_and_deny(rl.m)

\* Whether semaphore.acquire() has to wait.
must_wait(m) == semaphore(m).semaphore = 0

\* acquire_permit up to the semaphore (lines 142-147): ret is "false" when the
\* breaker denies, "wait" when the caller suspends on the semaphore, and
\* otherwise the result of the rest of the call.
acquire_permit(m, t, fault) ==
    LET ce == can_execute(m.circuit_breaker, t)
        m0 == [m EXCEPT !.circuit_breaker = ce.cb]
    IN  IF ~ce.ret THEN [ret |-> "false", m |-> m0]
        ELSE IF fault # "semaphore" /\ must_wait(m0)
        THEN [ret |-> "wait", m |-> semaphore(m0)]
        ELSE acquire_slot(m0, t, fault)

\* cleanup(): with no active permit it clears the semaphore and returns.
\* Otherwise it calls release_permit() while it holds self._permits_lock:
\* release_permit releases the semaphore and then waits for that lock, which
\* its own caller holds.  A cleanup() that finds the lock held waits for it.
\* A slip: the scope exit also gives the manager a new breaker.
cleanup_new_breaker(m) ==
    IF m.permits_lock THEN [ret |-> "blocked", m |-> m]
    ELSE IF m.active_permits > 0
    THEN [ret |-> "blocked",
          m |-> release_permit([m EXCEPT !.permits_lock = TRUE]).m]
    ELSE [ret |-> "done", m |-> [m EXCEPT !.semaphore = NoSemaphore,
                                          !.circuit_breaker = CircuitBreaker]]

cleanup(m) ==
    IF m.permits_lock THEN [ret |-> "blocked", m |-> m]
    ELSE IF m.active_permits > 0
    THEN [ret |-> "blocked",
          m |-> release_permit([m EXCEPT !.permits_lock = TRUE]).m]
    ELSE [ret |-> "done", m |-> [m EXCEPT !.semaphore = NoSemaphore]]

\* Free slots of the gate; a gate not yet created has all of them.
FreeSlots(m) == semaphore(m).semaphore

(***************************************************************************)
(* RequestProcessor (processor.py).  A request is its index in the list    *)
(* given to process_batch.  An APIResponse is [success, error]; the field  *)
(* req names the request the response was made for (the program does not   *)
(* store it: bookkeeping of the model).                                    *)
(***************************************************************************)
\* Bookkeeping of the model for the calls made on a breaker or a rate window:
\*   total      record_failure() calls since construction
\*   run        record_failure() calls since the latest record_success()
\*   probing    record_failure() calls since the breaker last became half-open
\*   closed     record_failure() calls since the breaker was last closed
\*              (constructed, or closed by record_success())
\*   before     the breaker before the latest call
\*   checks     check_rate_limits() calls since construction
\*   admitted   those that returned True
\*   window     those that returned True in the current window, the check
\*              that reset the window included
\*   tokens     the tokens argument of the latest check
\*   zero       every check so far was made with tokens = 0
Hist0 == [total |-> 0, run |-> 0, probing |-> 0, closed |-> 0,
          before |-> CircuitBreaker,
          checks |-> 0, admitted |-> 0, window |-> 0, tokens |-> 0,
          zero |-> TRUE,
          batches |-> 0, inherited |-> CircuitBreaker, since |-> 0]

Stats0 == [processed |-> 0, failed |-> 0, total_chunks |-> 0,
           active_requests |-> 0]

\* self.stats[key] += value
update_stats(s, key, value) == [s EXCEPT ![key] = @ + value]

APIResponse(req, success, error) ==
    [req |-> req, success |-> success, error |-> error]

\* What the collaborator (client.send_message) does with a call: it returns
\* a response with success=True, returns one with success=False, or raises.
Outcomes == {"ok", "failed", "raised"}

\* A request's task; the counters are bookkeeping of the model:
\*   acquired, denied   acquire_permit() calls that returned True, False
\*   calls              invocations of the collaborator
\*   released           release_permit() calls of _process_single_request
\*   successes, failures   record_success(), record_failure() calls
\* The second run before it is called; its list holds one request.
Other0 == [pc |-> "none", calls |-> 0, outcome |-> "none", responses |-> <<>>]

Task0 == [status |-> "none", outcome |-> "none",
          response |-> APIResponse(0, FALSE, "none"),
          acquired |-> 0, denied |-> 0, calls |-> 0, released |-> 0,
          successes |-> 0, failures |-> 0]

\* The requests of the batch in hand.
Requests == DOMAIN task

chunk == chunks[ci]

\* The driving task is suspended: in semaphore.acquire(), at the end of the
\* TaskGroup block, or blocked for good.  Only then do the tasks it created run.
MainSuspended ==
    \/ pc \in {"wait_sem", "blocked"}
    \/ pc = "chunk" /\ rj = Len(chunk)

InFlight == {r \in Requests : task[r].status \in {"created", "running"}}

\* A slip: the result of acquire_permit() is not looked at.
admitted_always(ret) == TRUE

\* "if await self.request_manager.acquire_permit():" (line 92).
admitted(ret) == ret = "true"

\* process_chunk lines 91-104 for one request, given acquire_permit's result.
Offered(r, res) ==
    /\ request_manager' = res.m
    /\ last' = [op |-> "acquire_permit", ret |-> res.ret, fault |-> "none"]
    /\ held' = IF res.ret = "true" THEN held + 1 ELSE held
    /\ IF res.ret \in {"wait", "blocked"}
       THEN /\ pc' = IF res.ret = "wait" THEN "wait_sem" ELSE "blocked"
            /\ UNCHANGED <<task, tasks, rj, responses>>
       ELSE /\ pc' = "chunk"
            /\ rj' = rj + 1
            /\ task' = [task EXCEPT
                   ![r].acquired = IF res.ret = "true" THEN @ + 1 ELSE @,
                   ![r].denied = IF res.ret = "false" THEN @ + 1 ELSE @,
                   ![r].status = IF admitted(res.ret) THEN "created" ELSE @]
            /\ IF admitted(res.ret)
               THEN /\ tasks' = Append(tasks, r)
                    /\ UNCHANGED responses
               ELSE /\ responses' =
                          Append(responses, APIResponse(r, FALSE, "permit"))
                    /\ UNCHANGED tasks
    /\ UNCHANGED <<other, hist, now, ticks, stats, requests, chunks, ci, all_responses>>

\* process_batch up to the first chunk (lines 182-200).
StartBatch(n) ==
    /\ pc = "idle"
    /\ requests' = [i \in 1..n |-> i]
    /\ chunks' = chunk_requests(requests', request_manager.chunk_size)
    /\ stats' = update_stats(Stats0, "total_chunks", Len(chunks'))
    /\ all_responses' = <<>>
    /\ ci' = IF Len(chunks') > 0 THEN 1 ELSE 0
    /\ pc' = IF Len(chunks') > 0 THEN "chunk" ELSE "exit"
    /\ rj' = 0
    /\ responses' = <<>>
    /\ tasks' = <<>>
    /\ task' = [r \in 1..n |-> Task0]
    /\ UNCHANGED <<other, hist, request_manager, now, ticks, last, held>>

\* process_chunk: the next request of the chunk asks for a permit.
Offer ==
    /\ pc = "chunk"
    /\ rj < Len(chunk)
    /\ Offered(chunk[rj + 1], acquire_permit(request_manager, now, "none"))

\* The driving task resumes in semaphore.acquire(): a slot is free.
Resume ==
    /\ pc = "wait_sem"
    /\ request_manager.semaphore > 0
    /\ Offered(chunk[rj + 1], acquire_slot(request_manager, now, "none"))

\* A slip: the start of a call is not counted.
TaskStart_uncounted(r) ==
    /\ MainSuspended
    /\ task[r].status = "created"
    /\ task' = [task EXCEPT ![r].status = "running", ![r].calls = @ + 1]
    /\ UNCHANGED <<other, hist, request_manager, now, ticks, pc, requests, chunks, ci, rj,
                   responses, tasks, all_responses, last, held, stats>>

\* _process_single_request up to the collaborator call (lines 142-152).
TaskStart(r) ==
    /\ MainSuspended
    /\ task[r].status = "created"
    /\ stats' = update_stats(stats, "active_requests", 1)
    /\ task' = [task EXCEPT ![r].status = "running", ![r].calls = @ + 1]
    /\ UNCHANGED <<other, hist, request_manager, now, ticks, pc, requests, chunks, ci, rj,
                   responses, tasks, all_responses, last, held>>

\* What _process_single_request records on the breaker (lines 154-159): a
\* call that returns is recorded as a success, one that raises as a failure.
recorded(outcome) == IF outcome = "raised" THEN "failure" ELSE "success"

\* A slip: the failed response is built without the error text.
task_response_without_error(r, outcome) ==
    IF outcome = "ok" THEN APIResponse(r, TRUE, "none")
    ELSE APIResponse(r, FALSE, "none")

\* The response of _process_single_request (lines 155, 160-165).
task_response(r, outcome) ==
    IF outcome = "ok" THEN APIResponse(r, TRUE, "none")
    ELSE APIResponse(r, FALSE, outcome)

\* A slip: the except clause is missing, so a call that raises fails its
\* task and the TaskGroup cancels the other tasks of the chunk.
TaskFinish_uncaught(r, outcome) ==
    /\ MainSuspended
    /\ task[r].status = "running"
    /\ LET rec == recorded(outcome)
           cb == IF rec = "success"
                 THEN record_success(request_manager.circuit_breaker)
                 ELSE record_failure(request_manager.circuit_breaker, now)
           rel == release_permit([request_manager EXCEPT !.circuit_breaker = cb])
       IN  /\ request_manager' = rel.m
           /\ last' = [op |-> "release_permit", ret |-> rel.ret, fault |-> "none"]
           /\ task' = [s \in Requests |->
                  IF s = r
                  THEN [task[s] EXCEPT
                          !.status = "done",
                          !.outcome = outcome,
                          !.response = task_response(r, outcome),
                          !.released = @ + 1,
                          !.successes = IF rec = "success" THEN @ + 1 ELSE @,
                          !.failures = IF rec = "failure" THEN @ + 1 ELSE @]
                  ELSE IF outcome = "raised"
                          /\ task[s].status \in {"created", "running"}
                  THEN [task[s] EXCEPT !.status = "cancelled"]
                  ELSE task[s]]
    /\ stats' = update_stats(stats, "active_requests", -1)
    /\ held' = IF held > 0 THEN held - 1 ELSE 0
    /\ UNCHANGED <<other, hist, now, ticks, pc, requests, chunks, ci, rj, responses, tasks,
                   all_responses>>

\* _process_single_request from the collaborator's answer on (lines 154-168).
TaskFinish(r, outcome) ==
    /\ MainSuspended
    /\ task[r].status = "running"
    /\ LET rec == recorded(outcome)
           cb == IF rec = "success"
                 THEN record_success(request_manager.circuit_breaker)
                 ELSE record_failure(request_manager.circuit_breaker, now)
           rel == release_permit([request_manager EXCEPT !.circuit_breaker = cb])
       IN  /\ request_manager' = rel.m
           /\ last' = [op |-> "release_permit", ret |-> rel.ret, fault |-> "none"]
           /\ task' = [task EXCEPT
                  ![r].status = IF rel.ret = "done" THEN "done" ELSE "blocked",
                  ![r].outcome = outcome,
                  ![r].response = task_response(r, outcome),
                  ![r].released = @ + 1,
                  ![r].successes = IF rec = "success" THEN @ + 1 ELSE @,
                  ![r].failures = IF rec = "failure" THEN @ + 1 ELSE @]
    /\ stats' = update_stats(stats, "active_requests", -1)
    /\ held' = IF held > 0 THEN held - 1 ELSE 0
    /\ UNCHANGED <<other, hist, now, ticks, pc, requests, chunks, ci, rj, responses, tasks,
                   all_responses>>

\* A slip: the tasks' responses are taken newest first.
RECURSIVE collect_newest_first(_, _)
collect_newest_first(resps, ts) ==
    IF ts = <<>> THEN resps
    ELSE Append(collect_newest_first(resps, Tail(ts)), task[Head(ts)].response)

\* process_chunk lines 106-126: the responses of the tasks in creation order,
\* after the responses appended while the requests were offered.
RECURSIVE collect(_, _)
collect(resps, ts) ==
    IF ts = <<>> THEN resps
    ELSE collect(Append(resps, task[Head(ts)].response), Tail(ts))

\* A slip: every collected response is counted as processed.
RECURSIVE count_all_processed(_, _)
count_all_processed(s, ts) ==
    IF ts = <<>> THEN s
    ELSE count_all_processed(update_stats(s, "processed", 1), Tail(ts))

\* The statistics process_chunk adds (lines 111-114).
RECURSIVE count(_, _)
count(s, ts) ==
    IF ts = <<>> THEN s
    ELSE count(update_stats(s, IF task[Head(ts)].response.success
                               THEN "processed" ELSE "failed", 1), Tail(ts))

\* A slip: the responses are collected without joining the tasks, as if
\* they had been created outside the TaskGroup.
Collect_unjoined ==
    /\ pc = "chunk"
    /\ rj = Len(chunk)
    /\ all_responses' = all_responses \o collect(responses, tasks)
    /\ stats' = count(stats, tasks)
    /\ pc' = IF ci < Len(chunks) THEN "sleep" ELSE "exit"
    /\ UNCHANGED <<other, hist, request_manager, now, ticks, requests, chunks, ci, rj,
                   responses, tasks, task, last, held>>

\* The TaskGroup block ends once every task is done; process_chunk collects
\* and returns, and process_batch extends all_responses (lines 204-209).
\* _process_single_request turns every Exception into a response, so no task
\* of this model fails and the handlers of lines 116-126 and 211-222 (a task
\* or a whole chunk failing) are not entered.
Collect ==
    /\ pc = "chunk"
    /\ rj = Len(chunk)
    /\ \A k \in 1..Len(tasks) : task[tasks[k]].status = "done"
    /\ all_responses' = all_responses \o collect(responses, tasks)
    /\ stats' = count(stats, tasks)
    /\ pc' = IF ci < Len(chunks) THEN "sleep" ELSE "exit"
    /\ UNCHANGED <<other, hist, request_manager, now, ticks, requests, chunks, ci, rj,
                   responses, tasks, task, last, held>>

\* asyncio.sleep(0.1) is over: the next chunk (lines 200-204).
NextChunk ==
    /\ pc = "sleep"
    /\ ci' = ci + 1
    /\ rj' = 0
    /\ responses' = <<>>
    /\ tasks' = <<>>
    /\ pc' = "chunk"
    /\ UNCHANGED <<other, hist, request_manager, now, ticks, stats, requests, chunks,
                   all_responses, task, last, held>>

\* Leaving "async with self.request_manager": __aexit__ runs cleanup(), and
\* process_batch returns all_responses (lines 194-196, 235).
ExitBatch ==
    /\ pc = "exit"
    /\ LET c == cleanup(request_manager)
       IN  /\ request_manager' = c.m
           /\ last' = [op |-> "cleanup", ret |-> c.ret, fault |-> "none"]
           /\ pc' = IF c.ret = "done" THEN "done" ELSE "blocked"
    /\ UNCHANGED <<other, hist, now, ticks, stats, requests, chunks, ci, rj, responses,
                   tasks, all_responses, task, held>>

\* The clock advances.  A step of the clock is five seconds or more: that
\* much time passes only while the program waits, before a batch, in the
\* sleep between two chunks, or with a collaborator call in flight.
Tick ==
    /\ ticks < MaxTicks
    /\ \/ pc \in {"idle", "sleep", "api", "api_wait"}
       \/ \E r \in Requests : task[r].status = "running"
    /\ \E d \in TickSteps : now' = now + d
    /\ ticks' = ticks + 1
    /\ UNCHANGED <<other, hist, request_manager, stats, pc, requests, chunks, ci, rj,
                   responses, tasks, all_responses, task, last, held>>

\* AsyncRequestManager.record_failure() called on the processor's manager
\* before the batch starts (a breaker that has seen failures already).
RecordFailure ==
    /\ pc = "idle"
    /\ request_manager.circuit_breaker.failures < MaxFailures
    /\ request_manager' = [request_manager EXCEPT !.circuit_breaker =
                              record_failure(@, now)]
    /\ last' = [op |-> "record_failure", ret |-> "done", fault |-> "none"]
    /\ UNCHANGED <<other, hist, now, ticks, stats, pc, requests, chunks, ci, rj, responses,
                   tasks, all_responses, task, held>>

\* RequestProcessor.__init__ (processor.py 17-67): a processor with its
\* manager, for a chunk_size, max_concurrent and rate limits within the bounds.
Init ==
    /\ now = 0
    /\ ticks = 0
    /\ \E mc \in 1..MaxConcurrent, cs \in 1..MaxChunkSize, rpm \in 1..MaxRpm :
          request_manager = AsyncRequestManager(
              [requests_per_minute |-> rpm,
               tokens_per_minute |-> DefaultTokensPerMinute], mc, cs, now)
    /\ stats = Stats0
    /\ pc = "idle"
    /\ requests = <<>>
    /\ chunks = <<>>
    /\ ci = 0
    /\ rj = 0
    /\ responses = <<>>
    /\ tasks = <<>>
    /\ all_responses = <<>>
    /\ task = <<>>
    /\ last = [op |-> "none", ret |-> "none", fault |-> "none"]
    /\ held = 0
    /\ hist = Hist0
    /\ other = Other0

Next ==
    \/ \E n \in 0..MaxRequests : StartBatch(n)
    \/ Offer
    \/ Resume
    \/ \E r \in Requests : TaskStart(r)
    \/ \E r \in Requests, o \in Outcomes : TaskFinish(r, o)
    \/ Collect
    \/ NextChunk
    \/ ExitBatch
    \/ Tick
    \/ RecordFailure

Spec == Init /\ [][Next]_vars

(***************************************************************************)
(* The manager used directly: tasks of a client call acquire_permit,       *)
(* release_permit, cleanup, record_failure and record_success in any       *)
(* order.  pc is "api", or "api_wait" while one caller is suspended in     *)
(* semaphore.acquire(); held counts the permits handed out and not yet     *)
(* given back by a release_permit() of their holder.                       *)
(***************************************************************************)
ApiFrame ==
    UNCHANGED <<other, hist, now, ticks, stats, requests, chunks, ci, rj, responses,
                tasks, all_responses, task>>

ApiReturned(res, fault) ==
    /\ res.m.semaphore <= MaxSemaphore
    /\ request_manager' = res.m
    /\ last' = [op |-> "acquire_permit", ret |-> res.ret, fault |-> fault]
    /\ held' = IF res.ret = "true" THEN held + 1 ELSE held
    /\ pc' = IF res.ret = "wait" THEN "api_wait" ELSE "api"
    /\ ApiFrame

\* acquire_permit(); fault names the place where an exception is raised.
ApiAcquire(fault) ==
    /\ pc = "api"
    /\ ApiReturned(acquire_permit(request_manager, now, fault), fault)

\* The suspended caller resumes: a slot is free (or the wait itself raises).
ApiResume(fault) ==
    /\ pc = "api_wait"
    /\ request_manager.semaphore > 0 \/ fault = "semaphore"
    /\ ApiReturned(acquire_slot(request_manager, now, fault), fault)

\* release_permit(), by a holder of a permit if there is one.
ApiRelease ==
    /\ pc \in {"api", "api_wait"}
    /\ request_manager.semaphore < MaxSemaphore
    /\ LET rel == release_permit(request_manager)
       IN  /\ request_manager' = rel.m
           /\ last' = [op |-> "release_permit", ret |-> rel.ret, fault |-> "none"]
    /\ held' = IF held > 0 THEN held - 1 ELSE 0
    /\ UNCHANGED pc
    /\ ApiFrame

\* cleanup() / __aexit__; the permits still held are void afterwards.
ApiCleanup ==
    /\ pc = "api"
    /\ LET c == cleanup(request_manager)
       IN  /\ request_manager' = c.m
           /\ last' = [op |-> "cleanup", ret |-> c.ret, fault |-> "none"]
    /\ held' = 0
    /\ UNCHANGED pc
    /\ ApiFrame

ApiRecordFailure ==
    /\ pc \in {"api", "api_wait"}
    /\ request_manager.circuit_breaker.failures < MaxFailures
    /\ request_manager' = [request_manager EXCEPT !.circuit_breaker =
                              record_failure(@, now)]
    /\ last' = [op |-> "record_failure", ret |-> "done", fault |-> "none"]
    /\ UNCHANGED <<pc, held>>
    /\ ApiFrame

ApiRecordSuccess ==
    /\ pc \in {"api", "api_wait"}
    /\ request_manager' = [request_manager EXCEPT !.circuit_breaker =
                              record_success(@)]
    /\ last' = [op |-> "record_success", ret |-> "done", fault |-> "none"]
    /\ UNCHANGED <<pc, held>>
    /\ ApiFrame

InitApi ==
    /\ now = 0
    /\ ticks = 0
    /\ \E mc \in 1..MaxConcurrent, rpm \in 1..MaxRpm :
          request_manager = AsyncRequestManager(
              [requests_per_minute |-> rpm,
               tokens_per_minute |-> DefaultTokensPerMinute], mc, 1, now)
    /\ stats = Stats0
    /\ pc = "api"
    /\ requests = <<>>
    /\ chunks = <<>>
    /\ ci = 0
    /\ rj = 0
    /\ responses = <<>>
    /\ tasks = <<>>
    /\ all_responses = <<>>
    /\ task = <<>>
    /\ last = [op |-> "none", ret |-> "none", fault |-> "none"]
    /\ held = 0
    /\ hist = Hist0
    /\ other = Other0

NextApi ==
    \/ ApiAcquire("none")
    \/ ApiResume("none")
    \/ ApiRelease
    \/ ApiCleanup
    \/ ApiRecordFailure
    \/ ApiRecordSuccess
    \/ Tick

\* The manager used directly, no exception raised inside acquire_permit.
SpecApi == InitApi /\ [][NextApi]_vars

NextFault ==
    \/ \E f \in Faults : ApiAcquire(f)
    \/ \E f \in Faults : ApiResume(f)
    \/ ApiRelease
    \/ ApiCleanup
    \/ ApiRecordFailure
    \/ ApiRecordSuccess
    \/ Tick

\* The same, with exceptions raised inside acquire_permit's try block.
SpecFault == InitApi /\ [][NextFault]_vars

(***************************************************************************)
(* The circuit breaker used directly: record_failure, record_success and   *)
(* can_execute in any order, with the clock advancing in between.          *)
(***************************************************************************)
breaker == request_manager.circuit_breaker

PartFrame ==
    UNCHANGED <<stats, pc, requests, chunks, ci, rj, responses, tasks,
                all_responses, task, held, other>>

CbRecordFailure ==
    /\ pc = "breaker"
    /\ hist.total < failure_threshold + MaxFailures
    /\ request_manager' = [request_manager EXCEPT !.circuit_breaker =
                              record_failure(@, now)]
    /\ last' = [op |-> "record_failure", ret |-> "done", fault |-> "none"]
    /\ hist' = [hist EXCEPT !.total = @ + 1, !.run = @ + 1, !.probing = @ + 1,
                            !.closed = @ + 1, !.before = breaker]
    /\ UNCHANGED <<now, ticks>>
    /\ PartFrame

CbRecordSuccess ==
    /\ pc = "breaker"
    /\ request_manager' = [request_manager EXCEPT !.circuit_breaker =
                              record_success(@)]
    /\ last' = [op |-> "record_success", ret |-> "done", fault |-> "none"]
    /\ hist' = [hist EXCEPT !.run = 0, !.before = breaker,
                            !.closed = IF breaker.state # "closed"
                                          /\ breaker'.state = "closed"
                                       THEN 0 ELSE @]
    /\ UNCHANGED <<now, ticks>>
    /\ PartFrame

CbCanExecute ==
    /\ pc = "breaker"
    /\ LET ce == can_execute(breaker, now)
       IN  /\ request_manager' = [request_manager EXCEPT
                                     !.circuit_breaker = ce.cb]
           /\ last' = [op |-> "can_execute",
                       ret |-> IF ce.ret THEN "true" ELSE "false",
                       fault |-> "none"]
           /\ hist' = [hist EXCEPT !.before = breaker,
                                   !.probing = IF breaker.state # "half-open"
                                                  /\ ce.cb.state = "half-open"
                                               THEN 0 ELSE @]
    /\ UNCHANGED <<now, ticks>>
    /\ PartFrame

\* The clock advances between two calls.
PartTick ==
    /\ ticks < MaxPartTicks
    /\ \E d \in TickSteps : now' = now + d
    /\ ticks' = ticks + 1
    /\ UNCHANGED <<request_manager, last, hist>>
    /\ PartFrame

InitPart(at) ==
    /\ now = 0
    /\ ticks = 0
    /\ stats = Stats0
    /\ pc = at
    /\ requests = <<>>
    /\ chunks = <<>>
    /\ ci = 0
    /\ rj = 0
    /\ responses = <<>>
    /\ tasks = <<>>
    /\ all_responses = <<>>
    /\ task = <<>>
    /\ last = [op |-> "none", ret |-> "none", fault |-> "none"]
    /\ held = 0
    /\ hist = Hist0
    /\ other = Other0

InitBreaker ==
    /\ InitPart("breaker")
    /\ request_manager = AsyncRequestManager(
          [requests_per_minute |-> MaxRpm,
           tokens_per_minute |-> DefaultTokensPerMinute],
          MaxConcurrent, MaxChunkSize, now)

NextBreaker ==
    \/ CbRecordFailure
    \/ CbRecordSuccess
    \/ CbCanExecute
    \/ PartTick

SpecBreaker == InitBreaker /\ [][NextBreaker]_vars


(***************************************************************************)
(* The rate window used directly: check_rate_limits(tokens) calls on a     *)
(* newly constructed manager, with the clock advancing in between.         *)
(***************************************************************************)
WinCheck(tokens) ==
    /\ pc = "window"
    /\ hist.checks < MaxChecks
    /\ LET res == check_rate_limits(request_manager, tokens, now)
           reset == now - request_manager.last_reset >= WindowSeconds
       IN  /\ request_manager' = res.m
           /\ last' = [op |-> "check_rate_limits",
                       ret |-> IF res.ret THEN "true" ELSE "false",
                       fault |-> "none"]
           /\ hist' = [hist EXCEPT
                          !.checks = @ + 1,
                          !.admitted = IF res.ret THEN @ + 1 ELSE @,
                          !.window = IF reset THEN 1
                                     ELSE IF res.ret THEN @ + 1 ELSE @,
                          !.tokens = tokens,
                          !.zero = @ /\ tokens = 0]
    /\ UNCHANGED <<now, ticks>>
    /\ PartFrame

InitWindow ==
    /\ InitPart("window")
    /\ \E rpm \in 1..MaxRpm, tpm \in 1..MaxTpm :
          request_manager = AsyncRequestManager(
             [requests_per_minute |-> rpm, tokens_per_minute |-> tpm],
             MaxConcurrent, MaxChunkSize, now)

NextWindow ==
    \/ \E tokens \in 0..MaxTokens : WinCheck(tokens)
    \/ PartTick

SpecWindow == InitWindow /\ [][NextWindow]_vars

(***************************************************************************)
(* One process_batch run whose first chunk can hold failure_threshold      *)
(* failures: chunk_size = failure_threshold, one request more than a       *)
(* chunk, and the default rate limits, so that only the breaker can deny.  *)
(***************************************************************************)
InitWide ==
    /\ InitPart("idle")
    /\ \E mc \in 1..MaxConcurrent :
          request_manager = AsyncRequestManager(
             [requests_per_minute |-> DefaultRequestsPerMinute,
              tokens_per_minute |-> DefaultTokensPerMinute],
             mc, failure_threshold, now)

NextWide ==
    \/ StartBatch(failure_threshold + 1)
    \/ Offer
    \/ Resume
    \/ \E r \in Requests : TaskStart(r)
    \/ \E r \in Requests, o \in Outcomes : TaskFinish(r, o)
    \/ Collect
    \/ NextChunk
    \/ ExitBatch
    \/ Tick

SpecWide == InitWide /\ [][NextWide]_vars

(***************************************************************************)
(* One process_batch run in which the fan-out of a chunk can fail:         *)
(* can_execute(), awaited by acquire_permit outside its try block          *)
(* (async_manager.py 142), raises while a request is being offered.  The   *)
(* exception leaves the TaskGroup block of process_chunk: the TaskGroup    *)
(* cancels the tasks that are not done and waits for them, then raises,    *)
(* and process_batch handles the error (processor.py 211-222).             *)
(***************************************************************************)
\* The elements of a sequence.
Range(f) == {f[i] : i \in DOMAIN f}

RECURSIVE release_n(_, _)
release_n(m, k) ==
    IF k = 0 THEN m ELSE release_n(release_permit(m).m, k - 1)

\* A slip: one failed response for the whole chunk.
chunk_failed_once(c) ==
    <<APIResponse(c[1], FALSE, "chunk")>>

\* The failed responses process_batch adds for a chunk (lines 214-221), one
\* for each request of the chunk.
chunk_failed(c) ==
    [i \in 1..Len(c) |-> APIResponse(c[i], FALSE, "chunk")]

\* A task cancelled before its first step never enters its try block, so its
\* permit is not released; one cancelled in the collaborator call skips the
\* except clause and runs the finally block (lines 166-168).
ChunkAbort ==
    /\ pc = "chunk"
    /\ rj < Len(chunk)
    /\ LET running == {r \in Range(tasks) : task[r].status = "running"}
           pending == {r \in Range(tasks) : task[r].status = "created"}
           n == Cardinality(running)
       IN  /\ task' = [r \in Requests |->
                        IF r \in running
                        THEN [task[r] EXCEPT !.status = "cancelled",
                                             !.released = @ + 1]
                        ELSE IF r \in pending
                        THEN [task[r] EXCEPT !.status = "cancelled"]
                        ELSE task[r]]
           /\ request_manager' = release_n(request_manager, n)
           /\ held' = held - n
           /\ stats' = update_stats(
                          update_stats(stats, "active_requests", 0 - n),
                          "failed", Len(chunk))
    /\ all_responses' = all_responses \o chunk_failed(chunk)
    /\ last' = [op |-> "process_chunk", ret |-> "raised",
                fault |-> "can_execute"]
    /\ IF ci < Len(chunks)
       THEN /\ ci' = ci + 1
            /\ pc' = "chunk"
       ELSE /\ pc' = "exit"
            /\ UNCHANGED ci
    /\ rj' = 0
    /\ responses' = <<>>
    /\ tasks' = <<>>
    /\ UNCHANGED <<other, hist, now, ticks, requests, chunks>>

InitAbort ==
    /\ InitPart("idle")
    /\ \E mc \in 1..MaxConcurrent :
          request_manager = AsyncRequestManager(
             [requests_per_minute |-> DefaultRequestsPerMinute,
              tokens_per_minute |-> DefaultTokensPerMinute],
             mc, AbortChunkSize, now)

NextAbort ==
    \/ StartBatch(AbortChunkSize + 1)
    \/ Offer
    \/ Resume
    \/ \E r \in Requests : TaskStart(r)
    \/ \E r \in Requests, o \in Outcomes : TaskFinish(r, o)
    \/ Collect
    \/ NextChunk
    \/ ExitBatch
    \/ ChunkAbort

SpecAbort == InitAbort /\ [][NextAbort]_vars

(***************************************************************************)
(* One process_batch run on a processor built with any chunk_size, zero    *)
(* and negative included (the constructors do not check it).  With         *)
(* chunk_size = 0, range(0, len(requests), 0) raises ValueError in         *)
(* chunk_requests (async_manager.py 114), which process_batch calls before *)
(* its try block (processor.py 193): the error leaves process_batch.  With *)
(* chunk_size < 0 the range is empty and there are no chunks.              *)
(***************************************************************************)
MinChunkSize == 0 - 1

StartBatchFails(n) ==
    /\ pc = "idle"
    /\ request_manager.chunk_size = 0
    /\ requests' = [i \in 1..n |-> i]
    /\ stats' = Stats0
    /\ task' = [r \in 1..n |-> Task0]
    /\ pc' = "raised"
    /\ last' = [op |-> "chunk_requests", ret |-> "raised", fault |-> "none"]
    /\ UNCHANGED <<other, hist, request_manager, now, ticks, chunks, ci, rj,
                   responses, tasks, all_responses, held>>

InitLoose ==
    /\ InitPart("idle")
    /\ \E mc \in 1..MaxConcurrent, cs \in MinChunkSize..MaxChunkSize,
          rpm \in 1..MaxRpm :
          request_manager = AsyncRequestManager(
              [requests_per_minute |-> rpm,
               tokens_per_minute |-> DefaultTokensPerMinute], mc, cs, now)

NextLoose ==
    \/ \E n \in 0..MaxRequests :
          request_manager.chunk_size # 0 /\ StartBatch(n)
    \/ \E n \in 0..MaxRequests : StartBatchFails(n)
    \/ Offer
    \/ Resume
    \/ \E r \in Requests : TaskStart(r)
    \/ \E r \in Requests, o \in Outcomes : TaskFinish(r, o)
    \/ Collect
    \/ NextChunk
    \/ ExitBatch
    \/ Tick

SpecLoose == InitLoose /\ [][NextLoose]_vars

(***************************************************************************)
(* RateLimits (models.py 12-21): a dataclass whose __post_init__ converts  *)
(* both fields with int() and checks nothing.  The manager is built with   *)
(* any pair of integers and then asked for admissions.                     *)
(***************************************************************************)
MinLimit == 0 - 1

\* int() of an integer is that integer.
RateLimits(requests_per_minute, tokens_per_minute) ==
    [requests_per_minute |-> requests_per_minute,
     tokens_per_minute |-> tokens_per_minute]

InitLimits ==
    /\ InitPart("window")
    /\ \E rpm \in MinLimit..MaxRpm, tpm \in MinLimit..MaxTpm :
          request_manager = AsyncRequestManager(
             RateLimits(rpm, tpm), MaxConcurrent, MaxChunkSize, now)

NextLimits ==
    \/ \E tokens \in 0..MaxTokens : WinCheck(tokens)
    \/ PartTick

SpecLimits == InitLimits /\ [][NextLimits]_vars

(***************************************************************************)
(* One process_batch run on a processor whose token quota is small:        *)
(* tokens_per_minute from 1 up, with the largest chunk size.               *)
(***************************************************************************)
InitTokens ==
    /\ InitPart("idle")
    /\ \E mc \in 1..MaxConcurrent, rpm \in 1..MaxRpm, tpm \in 1..MaxTpm :
          request_manager = AsyncRequestManager(
             [requests_per_minute |-> rpm, tokens_per_minute |-> tpm],
             mc, MaxChunkSize, now)

SpecTokens == InitTokens /\ [][Next]_vars

(***************************************************************************)
(* The scheduling of one process_batch run.  The event loop runs every    *)
(* task that is ready, the sleep between two chunks ends, and every        *)
(* collaborator call is taken to finish: a step of the run that stays      *)
(* possible is eventually taken.  Nothing obliges a caller to start a      *)
(* batch or the clock to make a step of five seconds.                      *)
(***************************************************************************)
Progress ==
    \/ Offer
    \/ Resume
    \/ \E r \in Requests : TaskStart(r)
    \/ \E r \in Requests, o \in Outcomes : TaskFinish(r, o)
    \/ Collect
    \/ NextChunk
    \/ ExitBatch

\* The clock moves while the run is under way.
Elapse ==
    /\ pc # "idle"
    /\ Tick

\* Failures recorded before the run, up to the one that opens the breaker.
Trip ==
    /\ request_manager.circuit_breaker.failures < failure_threshold
    /\ RecordFailure

NextLive ==
    \/ \E n \in 0..MaxRequests : StartBatch(n)
    \/ Progress
    \/ Elapse
    \/ Trip

\* A processor with any gate and any chunk size, and a request quota that a
\* longest request list exhausts.
InitLive ==
    /\ InitPart("idle")
    /\ \E mc \in 1..MaxConcurrent, cs \in 1..MaxChunkSize :
          request_manager = AsyncRequestManager(
             [requests_per_minute |-> MaxRpm,
              tokens_per_minute |-> DefaultTokensPerMinute], mc, cs, now)

SpecLive == InitLive /\ [][NextLive]_vars /\ WF_vars(Progress)

(***************************************************************************)
(* Two process_batch runs, one after the other, on one RequestProcessor    *)
(* (processor.py 170-235).  The second call resets stats (185-190) and     *)
(* chunks its list; the manager built in __init__ (53-57) is the one the   *)
(* first run left behind, its semaphore dropped by cleanup() and built     *)
(* again on first use.  hist.inherited is the breaker the second run       *)
(* found and hist.since the time it started.                               *)
(***************************************************************************)
LaterSteps == {half_open_timeout, reset_timeout + 1}

Again(n) ==
    /\ pc = "done"
    /\ hist.batches = 0
    /\ requests' = [i \in 1..n |-> i]
    /\ chunks' = chunk_requests(requests', request_manager.chunk_size)
    /\ stats' = update_stats(Stats0, "total_chunks", Len(chunks'))
    /\ all_responses' = <<>>
    /\ ci' = IF Len(chunks') > 0 THEN 1 ELSE 0
    /\ pc' = IF Len(chunks') > 0 THEN "chunk" ELSE "exit"
    /\ rj' = 0
    /\ responses' = <<>>
    /\ tasks' = <<>>
    /\ task' = [r \in 1..n |-> Task0]
    /\ hist' = [hist EXCEPT !.batches = 1, !.inherited = breaker,
                            !.since = now]
    /\ UNCHANGED <<request_manager, now, ticks, last, held, other>>

\* The clock between the two runs, during the pause between two chunks and
\* during a call.
Later ==
    /\ ticks < MaxTicks
    /\ \/ pc \in {"done", "sleep"}
       \/ \E r \in Requests : task[r].status = "running"
    /\ \E d \in LaterSteps : now' = now + d
    /\ ticks' = ticks + 1
    /\ UNCHANGED <<other, hist, request_manager, stats, pc, requests, chunks, ci, rj,
                   responses, tasks, all_responses, task, last, held>>

NextTwice ==
    \/ \E n \in 0..MaxRequests : StartBatch(n)
    \/ \E n \in 0..MaxRequests : Again(n)
    \/ Progress
    \/ Later
    \/ RecordFailure

\* The processor of the two runs: any gate, any chunk size, and a request quota
\* that the requests of the two runs exhaust.
InitTwice == InitLive

SpecTwice == InitTwice /\ [][NextTwice]_vars

(***************************************************************************)
(* Two process_batch runs interleaved on one RequestProcessor              *)
(* (processor.py 170-235): while the first run is suspended (it waits for  *)
(* its chunk's tasks, for a slot of the gate or for the pause between two  *)
(* chunks) a second call of process_batch, with a list of one request,     *)
(* takes its steps on the same manager and the same stats.  other.pc is    *)
(* "none" before the call, "wait_sem" at the gate, "created" and "running" *)
(* while the run waits for its task, "finished" when the task has ended,   *)
(* "returned" after the return and "blocked" at a lock that is not given   *)
(* back.                                                                   *)
(***************************************************************************)
Yielded == MainSuspended \/ pc = "sleep"

\* The end of the second run once its chunk is collected: the scope exit
\* (processor.py 199, async_manager.py 194-196) and the return.
OtherExit(m, resps) ==
    LET c == cleanup(m)
    IN  /\ request_manager' = c.m
        /\ last' = [op |-> "cleanup", ret |-> c.ret, fault |-> "none"]
        /\ other' = [other EXCEPT
               !.pc = IF c.ret = "done" THEN "returned" ELSE "blocked",
               !.responses = resps]

\* The second run after acquire_permit() for its request (processor.py 92-104).
OtherOffered(res) ==
    /\ held' = IF res.ret = "true" THEN held + 1 ELSE held
    /\ IF res.ret = "false"
       THEN OtherExit(res.m, <<APIResponse(1, FALSE, "permit")>>)
       ELSE /\ request_manager' = res.m
            /\ last' = [op |-> "acquire_permit", ret |-> res.ret,
                        fault |-> "none"]
            /\ other' = [other EXCEPT
                   !.pc = IF res.ret = "true" THEN "created"
                          ELSE IF res.ret = "wait" THEN "wait_sem"
                          ELSE "blocked"]

OtherStart ==
    /\ other.pc = "none"
    /\ pc # "idle"
    /\ Yielded
    /\ stats' = update_stats(Stats0, "total_chunks", 1)
    /\ OtherOffered(acquire_permit(request_manager, now, "none"))
    /\ UNCHANGED <<hist, now, ticks, pc, requests, chunks, ci, rj, responses,
                   tasks, all_responses, task>>

OtherResume ==
    /\ other.pc = "wait_sem"
    /\ Yielded
    /\ request_manager.semaphore > 0
    /\ OtherOffered(acquire_slot(request_manager, now, "none"))
    /\ UNCHANGED <<hist, now, ticks, stats, pc, requests, chunks, ci, rj,
                   responses, tasks, all_responses, task>>

OtherTaskStart ==
    /\ other.pc = "created"
    /\ Yielded
    /\ stats' = update_stats(stats, "active_requests", 1)
    /\ other' = [other EXCEPT !.pc = "running", !.calls = @ + 1]
    /\ UNCHANGED <<hist, request_manager, now, ticks, pc, requests, chunks, ci,
                   rj, responses, tasks, all_responses, task, last, held>>

OtherTaskFinish(outcome) ==
    /\ other.pc = "running"
    /\ Yielded
    /\ LET rec == recorded(outcome)
           cb == IF rec = "success"
                 THEN record_success(request_manager.circuit_breaker)
                 ELSE record_failure(request_manager.circuit_breaker, now)
           rel == release_permit([request_manager EXCEPT !.circuit_breaker = cb])
       IN  /\ request_manager' = rel.m
           /\ last' = [op |-> "release_permit", ret |-> rel.ret, fault |-> "none"]
           /\ other' = [other EXCEPT
                  !.pc = IF rel.ret = "done" THEN "finished" ELSE "blocked",
                  !.outcome = outcome]
    /\ stats' = update_stats(stats, "active_requests", -1)
    /\ held' = IF held > 0 THEN held - 1 ELSE 0
    /\ UNCHANGED <<hist, now, ticks, pc, requests, chunks, ci, rj, responses,
                   tasks, all_responses, task>>

\* The second run collects its task (processor.py 106-113) and leaves.
OtherReturn ==
    /\ other.pc = "finished"
    /\ Yielded
    /\ stats' = update_stats(stats, IF other.outcome = "ok" THEN "processed"
                                    ELSE "failed", 1)
    /\ OtherExit(request_manager, <<task_response(1, other.outcome)>>)
    /\ UNCHANGED <<hist, now, ticks, pc, requests, chunks, ci, rj, responses,
                   tasks, all_responses, task, held>>

OtherProgress ==
    \/ OtherStart
    \/ OtherResume
    \/ OtherTaskStart
    \/ \E o \in Outcomes : OtherTaskFinish(o)
    \/ OtherReturn

NextPair ==
    \/ \E n \in 1..MaxRequests : StartBatch(n)
    \/ Progress
    \/ OtherProgress

\* Every task that can take a step is run by the event loop, and every call
\* finishes.
SpecPair == InitLive /\ [][NextPair]_vars /\ WF_vars(Progress \/ OtherProgress)

(***************************************************************************)
(* The claims.                                                             *)
(***************************************************************************)
Offered_(r) == task[r].acquired + task[r].denied > 0

BatchOver == pc \in {"exit", "done"}

\* C1: process_batch(R) returns exactly len(R) outcomes, for every R and
\* every mix of admitted, denied, succeeding and failing requests; the run
\* never ends in a state other than its normal return.
C1_OneOutcomePerRequest ==
    /\ pc = "done" => Len(all_responses) = Len(requests)
    /\ pc # "blocked"

C1_Witness ==
    /\ pc = "done"
    /\ Len(chunks) >= 2
    /\ \E r \in Requests : task[r].denied = 1
    /\ \E r \in Requests : task[r].outcome = "ok"
    /\ \E r \in Requests : task[r].outcome = "raised"

\* C2: after process_batch(R), stats.processed + stats.failed = len(R), each
\* permit-denied request adding 1 to stats.failed.
C2_StatsCountEveryRequest ==
    pc = "done" => stats.processed + stats.failed = Len(requests)

\* C3: the i-th outcome returned by process_batch(R) is the outcome of the
\* i-th request of R, also when requests of a chunk are denied a permit.
C3_OutcomesInRequestOrder ==
    pc = "done" =>
        \A i \in 1..Len(all_responses) :
            i <= Len(requests) => all_responses[i].req = requests[i]

\* C4: at every moment the number of calls dispatched and not yet finished
\* is at most max_concurrent, also when chunk_size > max_concurrent.
C4_InFlightBounded ==
    Cardinality(InFlight) <= request_manager.max_concurrent

C4_Witness ==
    /\ pc = "wait_sem"
    /\ request_manager.chunk_size > request_manager.max_concurrent
    /\ Cardinality(InFlight) = request_manager.max_concurrent
    /\ \E r \in Requests : task[r].status = "running"

\* C5: every acquire_permit() that returned true is followed by exactly one
\* release_permit() of the dispatched call, whatever the call's outcome; when
\* the batch is over active_permits is 0 and every gate slot is free.
C5_PermitSymmetry ==
    /\ \A r \in Requests :
          /\ task[r].released <= task[r].acquired
          /\ task[r].acquired <= 1
          /\ task[r].status = "done" => task[r].released = 1
    /\ BatchOver =>
          /\ \A r \in Requests : task[r].released = task[r].acquired
          /\ request_manager.active_permits = 0
          /\ held = 0
          /\ FreeSlots(request_manager) = request_manager.max_concurrent

C5_Witness ==
    /\ pc = "done"
    /\ \A o \in Outcomes :
          \E r \in Requests : task[r].outcome = o /\ task[r].released = 1

\* C6: an acquire_permit() that returns false (breaker, rate window, or an
\* exception raised anywhere in the acquisition) leaves the free slots, the
\* held slots and active_permits as they were; a breaker denial does not
\* wait on the gate and leaves the rate-window counters alone.
C6_DeniedAcquireLeavesGate ==
    [][/\ \E f \in Faults : ApiAcquire(f) \/ ApiResume(f)
       /\ last'.ret = "false"
       => /\ FreeSlots(request_manager') = FreeSlots(request_manager)
          /\ request_manager'.active_permits = request_manager.active_permits
          /\ held' = held
          /\ (pc = "api" /\ ~can_execute(request_manager.circuit_breaker, now).ret)
                => /\ request_manager'.requests_made = request_manager.requests_made
                   /\ request_manager'.tokens_used = request_manager.tokens_used
                   /\ request_manager'.semaphore = request_manager.semaphore
      ]_vars

\* C7: release_permit() with no slot held is a no-op: active_permits and the
\* free slots stay as they are, so never more than max_concurrent slots are
\* held at once and active_permits is never negative.
C7_ReleaseWithoutPermitIsNoOp ==
    /\ [][ApiRelease /\ held = 0 /\ last'.ret = "done"
          => /\ request_manager'.active_permits = request_manager.active_permits
             /\ FreeSlots(request_manager') = FreeSlots(request_manager)]_vars
    /\ [](held <= request_manager.max_concurrent)
    /\ [](request_manager.active_permits >= 0)

\* C8: cleanup() with k >= 0 permits still active terminates, leaves
\* active_permits = 0 and the permit pool torn down, for every k.
C8_CleanupReleasesAll ==
    last.op = "cleanup" =>
        /\ last.ret = "done"
        /\ request_manager.active_permits = 0
        /\ request_manager.semaphore = NoSemaphore
        /\ ~request_manager.permits_lock

\* C9: the collaborator is invoked exactly once for each request whose
\* acquire_permit() returned true and never for a denied one; a denied
\* request yields a failed outcome; no request is offered or called twice.
C9_OneCallPerPermit ==
    /\ \A r \in Requests :
          /\ task[r].acquired + task[r].denied <= 1
          /\ task[r].calls <= task[r].acquired
          /\ task[r].status \in {"running", "done"} => task[r].calls = 1
    /\ BatchOver =>
          \A r \in 1..Len(requests) :
              /\ Offered_(r)
              /\ task[r].calls = task[r].acquired
              /\ task[r].denied = 1 =>
                    APIResponse(r, FALSE, "permit") \in Range(all_responses)

C9_Witness ==
    /\ pc = "done"
    /\ \E r \in Requests : task[r].denied = 1 /\ task[r].calls = 0
    /\ \E r \in Requests : task[r].acquired = 1 /\ task[r].calls = 1

\* C10: for an admitted request whose call raises or returns success=false
\* record_failure() is called exactly once and stats.failed is incremented;
\* for one that returns success=true record_success() is called and
\* stats.processed is incremented; a failure is never recorded as a success.
C10_FailureRecordedOnBreaker ==
    /\ \A r \in Requests :
          task[r].status = "done" =>
              IF task[r].outcome = "ok"
              THEN task[r].successes = 1 /\ task[r].failures = 0
              ELSE task[r].failures = 1 /\ task[r].successes = 0
    /\ BatchOver =>
          /\ stats.processed =
                Cardinality({r \in Requests : task[r].outcome = "ok"})
          /\ stats.failed =
                Cardinality({r \in Requests :
                                task[r].outcome \in {"failed", "raised"}})

\* C11: once failure_threshold requests of the first chunk have failed (the
\* call raised or returned success=false) the breaker is open, and while no
\* more than reset_timeout has elapsed no request of a later chunk is
\* admitted or passed to the client: each gets the permit-denied response.
C11_BreakerStopsLaterChunks ==
    (/\ Len(chunks) >= 2
     /\ Cardinality({r \in Range(chunks[1]) :
                        task[r].outcome \in {"failed", "raised"}})
           >= failure_threshold
     /\ now <= reset_timeout) =>
       /\ breaker.state = "open"
       /\ \A r \in Requests \ Range(chunks[1]) :
             /\ task[r].acquired = 0
             /\ task[r].calls = 0
             /\ (pc = "done" =>
                    APIResponse(r, FALSE, "permit") \in Range(all_responses))

\* C12: starting from a new breaker, while fewer than failure_threshold
\* failures have been recorded the breaker is closed and can_execute() returns
\* true; right after the failure_threshold-th record_failure() the breaker is
\* open and a can_execute() called before the clock moves returns false.
C12_OpensAtThreshold ==
    /\ hist.total < failure_threshold =>
          /\ breaker.state = "closed"
          /\ can_execute(breaker, now).ret
    /\ (hist.total = failure_threshold /\ last.op = "record_failure") =>
          /\ breaker.state = "open"
          /\ now = breaker.last_failure_time => ~can_execute(breaker, now).ret

\* The threshold-th failure has just been recorded.
C12_Witness ==
    /\ pc = "breaker"
    /\ hist.total = failure_threshold
    /\ last.op = "record_failure"
    /\ hist.before.state = "closed"
    /\ breaker.state = "open"
    /\ now = breaker.last_failure_time

\* C13: while the breaker is open, can_execute() returns false and leaves it
\* open as long as now - last_failure_time <= reset_timeout; with
\* now - last_failure_time > reset_timeout it moves the breaker to half-open
\* and returns true; no other step takes the breaker out of open.
C13_OpenLeftOnlyByProbe ==
    [][breaker.state = "open" =>
          /\ (CbCanExecute /\ now - breaker.last_failure_time <= reset_timeout)
                => (last'.ret = "false" /\ breaker' = breaker)
          /\ (CbCanExecute /\ now - breaker.last_failure_time > reset_timeout)
                => (last'.ret = "true" /\ breaker'.state = "half-open")
          /\ breaker'.state # "open"
                => (CbCanExecute
                    /\ now - breaker.last_failure_time > reset_timeout)]_vars

\* can_execute() has just moved an open breaker to half-open.
C13_Witness ==
    /\ pc = "breaker"
    /\ last.op = "can_execute"
    /\ last.ret = "true"
    /\ hist.before.state = "open"
    /\ breaker.state = "half-open"
    /\ now - breaker.last_failure_time > reset_timeout

\* C14: record_success() on a half-open breaker closes it with a failure
\* count of 0; a closed breaker then opens exactly when failure_threshold
\* failures have been recorded since it was closed.
C14_SuccessClosesHalfOpen ==
    /\ [][(CbRecordSuccess /\ breaker.state = "half-open") =>
             (breaker'.state = "closed" /\ breaker'.failures = 0)]_vars
    /\ [](breaker.state = "closed" =>
             (breaker.failures = hist.closed
              /\ hist.closed < failure_threshold))
    /\ [][(breaker.state = "closed" /\ breaker'.state = "open") =>
             hist'.closed = failure_threshold]_vars

\* A breaker that was closed by record_success() has opened again, after
\* failure_threshold further failures.
C14_Witness ==
    /\ pc = "breaker"
    /\ breaker.state = "open"
    /\ last.op = "record_failure"
    /\ hist.before.state = "closed"
    /\ hist.total = 2 * failure_threshold
    /\ hist.closed = failure_threshold

\* C15: a closed breaker opens only when failure_threshold record_failure()
\* calls occurred with no record_success() between them.
C15_OnlyConsecutiveFailuresOpen ==
    [][(breaker.state = "closed" /\ breaker'.state = "open") =>
          hist'.run >= failure_threshold]_vars

\* C16 as stated: the breaker leaves half-open for open only once
\* failure_threshold failures were recorded since it became half-open.
C16_HalfOpenReaccumulates ==
    [][(breaker.state = "half-open" /\ breaker'.state = "open") =>
          hist'.probing >= failure_threshold]_vars

\* C16 amended: record_failure() on a half-open breaker runs the same code as
\* any other failure (count + 1, time stamped), and since the count is still
\* at or above failure_threshold it opens the breaker at once.
C16_HalfOpenFailureReopens ==
    /\ [](breaker.state = "half-open" =>
             breaker.failures >= failure_threshold)
    /\ [][(CbRecordFailure /\ breaker.state = "half-open") =>
             /\ breaker'.state = "open"
             /\ breaker'.failures = breaker.failures + 1
             /\ breaker'.last_failure_time = now]_vars

\* The first failure recorded on a half-open breaker has reopened it.
C16_Witness ==
    /\ pc = "breaker"
    /\ last.op = "record_failure"
    /\ hist.before.state = "half-open"
    /\ hist.probing = 1
    /\ breaker.state = "open"

\* C17: on a newly constructed manager with tokens_per_minute >= 1, as long
\* as every check passed tokens = 0 and fewer than 60 seconds have elapsed,
\* exactly the first requests_per_minute checks were admitted; a denied check
\* leaves requests_made and tokens_used unchanged.
C17_FirstNAdmitted ==
    /\ []((pc = "window" /\ hist.zero /\ now < WindowSeconds) =>
             /\ hist.admitted =
                   IF hist.checks <
                         request_manager.rate_limits.requests_per_minute
                   THEN hist.checks
                   ELSE request_manager.rate_limits.requests_per_minute
             /\ request_manager.requests_made = hist.admitted
             /\ (hist.checks >
                    request_manager.rate_limits.requests_per_minute
                 => last.ret = "false"))
    /\ [][((\E tokens \in 0..MaxTokens : WinCheck(tokens))
           /\ last'.ret = "false") =>
             /\ request_manager'.requests_made = request_manager.requests_made
             /\ request_manager'.tokens_used = request_manager.tokens_used]_vars

\* With requests_per_minute = 2, the third check of the first minute has
\* been denied after two admitted ones.
C17_Witness ==
    /\ pc = "window"
    /\ hist.zero
    /\ now < WindowSeconds
    /\ request_manager.rate_limits.requests_per_minute = 2
    /\ hist.checks = 3
    /\ hist.admitted = 2
    /\ last.op = "check_rate_limits"
    /\ last.ret = "false"

\* C18: a check made 60 seconds or more after window_start is admitted,
\* moves window_start to now and leaves requests_made = 1 and tokens_used =
\* the tokens of that check.
C18_ResetCountsTheCall ==
    [][\A tokens \in 0..MaxTokens :
          (WinCheck(tokens)
           /\ now - request_manager.last_reset >= WindowSeconds) =>
             /\ last'.ret = "true"
             /\ request_manager'.last_reset = now
             /\ request_manager'.requests_made = 1
             /\ request_manager'.tokens_used = tokens]_vars

\* C19: in every window, counting the check that resets it, at most
\* requests_per_minute checks are admitted.
C19_WindowBoundsAdmissions ==
    pc = "window" =>
       hist.window <= request_manager.rate_limits.requests_per_minute

\* The concatenation of the first c chunks.
RECURSIVE Concat(_, _)
Concat(cs, c) ==
    IF c = 0 THEN <<>> ELSE Concat(cs, c - 1) \o cs[c]

\* C20: chunk_requests splits the request list in order: the chunks
\* concatenated give the list, every chunk has between 1 and chunk_size
\* requests, every chunk but the last has exactly chunk_size, an empty list
\* gives no chunk, and the list itself is as it was passed in.
C20_ChunksSplitInOrder ==
    pc # "idle" =>
       LET k == request_manager.chunk_size
       IN  /\ Concat(chunks, Len(chunks)) = requests
           /\ \A c \in DOMAIN chunks :
                 Len(chunks[c]) >= 1 /\ Len(chunks[c]) <= k
           /\ \A c \in 1..(Len(chunks) - 1) : Len(chunks[c]) = k
           /\ (requests = <<>> => chunks = <<>>)
           /\ requests = [i \in 1..Len(requests) |-> i]

\* A list that does not divide evenly: a full chunk followed by a shorter
\* last chunk.
C20_Witness ==
    /\ pc # "idle"
    /\ Len(chunks) >= 2
    /\ Len(chunks[1]) = request_manager.chunk_size
    /\ Len(chunks[Len(chunks)]) < request_manager.chunk_size
    /\ Concat(chunks, Len(chunks)) = requests

\* C21: chunks are processed one after the other: a request of a chunk that
\* has not started yet was neither offered for admission nor dispatched, and
\* once a later chunk has started (or the chunk's responses were taken up)
\* every request of the chunk was offered, none of its calls is in flight
\* and its outcome is among the collected responses.
C21_ChunksOneAfterTheOther ==
    \A c \in DOMAIN chunks : \A r \in Range(chunks[c]) :
        /\ c > ci => task[r] = Task0
        /\ (c < ci \/ (c = ci /\ pc \in {"sleep", "exit", "done"})) =>
              /\ Offered_(r)
              /\ task[r].status \notin {"created", "running"}
              /\ task[r].acquired = 1 =>
                    (task[r].status = "done"
                     /\ task[r].response \in Range(all_responses))
              /\ task[r].denied = 1 =>
                    APIResponse(r, FALSE, "permit") \in Range(all_responses)

\* The second chunk has a call in flight after a call of the first chunk
\* has finished.
C21_Witness ==
    /\ pc = "chunk"
    /\ ci = 2
    /\ \E r \in Range(chunks[1]) : task[r].calls = 1 /\ task[r].status = "done"
    /\ \E r \in Range(chunks[2]) : task[r].status = "running"

\* C22: a request whose call raised or returned success=false has, in the
\* list process_batch returns, a response with success=false that carries
\* the error, and no other response; its task ended by returning that
\* response, so the batch runs to its normal return with one response for
\* every request.
C22_FailuresBecomeFailedOutcomes ==
    /\ \A r \in Requests :
          task[r].outcome \in {"failed", "raised"} =>
             /\ task[r].status = "done"
             /\ task[r].response = APIResponse(r, FALSE, task[r].outcome)
             /\ pc # "blocked"
    /\ pc = "done" =>
          \A r \in Requests :
             task[r].outcome \in {"failed", "raised"} =>
                /\ APIResponse(r, FALSE, task[r].outcome)
                      \in Range(all_responses)
                /\ \A i \in DOMAIN all_responses :
                      all_responses[i].req = r =>
                         all_responses[i] =
                            APIResponse(r, FALSE, task[r].outcome)

\* A batch has returned with one call that raised and one that returned
\* success=false.
C22_Witness ==
    /\ pc = "done"
    /\ \E r \in Requests : task[r].outcome = "raised"
    /\ \E r \in Requests : task[r].outcome = "failed"
    /\ Len(all_responses) = Len(requests)

\* C23: when the fan-out of a chunk fails, exactly len(chunk) failed
\* responses are appended for it, stats.failed grows by exactly len(chunk)
\* and stats.processed not at all, and the next chunk, if there is one, is
\* started; at no time are more requests counted than have a response.
C23_AbortedChunkAccounted ==
    /\ [][ChunkAbort =>
             /\ Len(all_responses') = Len(all_responses) + Len(chunk)
             /\ SubSeq(all_responses', 1, Len(all_responses)) = all_responses
             /\ \A i \in 1..Len(chunk) :
                   /\ ~all_responses'[Len(all_responses) + i].success
                   /\ all_responses'[Len(all_responses) + i].req = chunk[i]
             /\ stats'.failed = stats.failed + Len(chunk)
             /\ stats'.processed = stats.processed
             /\ (ci < Len(chunks) =>
                    (pc' = "chunk" /\ ci' = ci + 1 /\ rj' = 0))]_vars
    /\ [](/\ stats.processed + stats.failed <= Len(all_responses)
          /\ Len(all_responses) <= Len(requests))

\* The first chunk was aborted after one of its calls had succeeded and
\* while another was in flight, and the second chunk has been started.
C23_Witness ==
    /\ last.op = "process_chunk"
    /\ last.ret = "raised"
    /\ pc = "chunk"
    /\ ci = 2
    /\ Len(all_responses) = Len(chunks[1])
    /\ stats.failed = Len(chunks[1])
    /\ \E r \in Range(chunks[1]) : task[r].outcome = "ok"
    /\ \E r \in Range(chunks[1]) :
          task[r].status = "cancelled" /\ task[r].calls = 1

\* C24: after process_batch has returned, stats.processed is the number of
\* returned responses with success=true, stats.failed the number with
\* success=false, and stats.total_chunks is ceil(len(R) / chunk_size).
C24_StatsAgreeWithOutcomes ==
    pc = "done" =>
       /\ stats.processed =
             Cardinality({i \in DOMAIN all_responses :
                             all_responses[i].success})
       /\ stats.failed =
             Cardinality({i \in DOMAIN all_responses :
                             ~all_responses[i].success})
       /\ stats.total_chunks =
             (Len(requests) + request_manager.chunk_size - 1)
                \div request_manager.chunk_size

\* C25: when the batch is aborted as a whole, process_batch still returns,
\* and every request has a response in the returned list.
C25_NoRequestDropped ==
    /\ pc # "raised"
    /\ pc = "done" =>
          \A r \in 1..Len(requests) :
             \E i \in DOMAIN all_responses : all_responses[i].req = r

\* C26: when every call succeeds (so no request was denied), process_batch
\* on n requests with chunk_size k has made ceil(n / k) chunks, ends with
\* processed = n and failed = 0, and returns the successful responses in the
\* order of the requests.
C26_AllSucceed ==
    (pc = "done" /\ \A r \in Requests : task[r].outcome = "ok") =>
       LET n == Len(requests)
           k == request_manager.chunk_size
       IN  /\ Len(chunks) = (n + k - 1) \div k
           /\ stats.total_chunks = (n + k - 1) \div k
           /\ stats.processed = n
           /\ stats.failed = 0
           /\ all_responses = [i \in 1..n |-> APIResponse(requests[i], TRUE, "none")]

\* Three requests in chunks of two and one have all succeeded.
C26_Witness ==
    /\ pc = "done"
    /\ Len(requests) = 3
    /\ Len(chunks) = 2
    /\ Len(chunks[1]) = 2
    /\ \A r \in Requests : task[r].outcome = "ok"
    /\ stats.processed = 3

\* C27: when no request is denied and the calls of a set F of requests fail,
\* with fewer than failure_threshold requests in F, the i-th returned
\* response is that of the i-th request and has success=false exactly when
\* the request is in F, stats.failed = |F| and stats.processed = len(R) - |F|.
C27_FailedExactlyWhereCallsFailed ==
    LET F == {r \in Requests : task[r].outcome \in {"failed", "raised"}}
    IN  (/\ pc = "done"
         /\ \A r \in Requests : task[r].denied = 0
         /\ Cardinality(F) < failure_threshold) =>
           /\ Len(all_responses) = Len(requests)
           /\ \A i \in 1..Len(requests) :
                 /\ all_responses[i].req = requests[i]
                 /\ all_responses[i].success <=> requests[i] \notin F
           /\ stats.failed = Cardinality(F)
           /\ stats.processed = Len(requests) - Cardinality(F)

\* Three admitted requests, of which one raised, one returned a failure and
\* one succeeded.
C27_Witness ==
    /\ pc = "done"
    /\ Len(requests) = 3
    /\ \A r \in Requests : task[r].denied = 0
    /\ \E r \in Requests : task[r].outcome = "raised"
    /\ \E r \in Requests : task[r].outcome = "failed"
    /\ \E r \in Requests : task[r].outcome = "ok"
    /\ stats.failed = 2

\* C28: every RateLimits value that exists has requests_per_minute > 0 and
\* tokens_per_minute > 0 (a non-positive value being refused at
\* construction).
C28_RateLimitsPositive ==
    /\ request_manager.rate_limits.requests_per_minute > 0
    /\ request_manager.rate_limits.tokens_per_minute > 0

\* C29: the calls of a chunk are not coupled: a call that raises or returns
\* a failure changes nothing of any other request and does not stop the
\* offering of the chunk's remaining requests; no task is ever cancelled,
\* every admitted request runs to an outcome of its own and every request is
\* offered for admission.
C29_SiblingsNotCoupled ==
    /\ [][\A r \in Requests, o \in {"failed", "raised"} :
             TaskFinish(r, o) =>
                /\ \A s \in Requests \ {r} : task'[s] = task[s]
                /\ pc' = pc /\ rj' = rj /\ tasks' = tasks]_vars
    /\ [](\A r \in Requests : task[r].status # "cancelled")
    /\ [](BatchOver =>
             \A r \in Requests :
                /\ Offered_(r)
                /\ task[r].acquired = 1 => task[r].outcome \in Outcomes)

\* One call of a chunk has raised while another call of the same chunk is
\* still in flight.
C29_Witness ==
    /\ pc = "chunk"
    /\ \E r \in Range(chunk), s \in Range(chunk) :
          /\ task[r].status = "done"
          /\ task[r].outcome = "raised"
          /\ task[s].status = "running"

\* C30: no lock of the manager is held by a task that is suspended; of the
\* locks of the core only _permits_lock can be, every other critical section
\* having no await inside.
C30_NoLockHeldWhileSuspended ==
    ~request_manager.permits_lock

\* C31: stats.active_requests is the number of calls that have started and
\* not finished: never negative, never above max_concurrent, one less after
\* the end of each call whatever its outcome, and 0 when process_batch
\* returns.
C31_ActiveRequestsCountsCalls ==
    /\ [](/\ stats.active_requests =
                Cardinality({r \in Requests : task[r].status = "running"})
          /\ stats.active_requests >= 0
          /\ stats.active_requests <= request_manager.max_concurrent
          /\ (pc = "done" => stats.active_requests = 0))
    /\ [][\A r \in Requests, o \in Outcomes :
             TaskFinish(r, o) =>
                stats'.active_requests = stats.active_requests - 1]_vars

\* One call is in flight after a call of the same chunk has raised and
\* ended.
C31_Witness ==
    /\ stats.active_requests = 1
    /\ \E r \in Range(chunk), s \in Range(chunk) :
          /\ task[r].status = "running"
          /\ task[s].status = "done"
          /\ task[s].outcome = "raised"

\* C33: in every reachable breaker state, closed implies failures <
\* failure_threshold, and open or half-open implies failures >=
\* failure_threshold.
C33_StateAgreesWithCount ==
    /\ breaker.state \in {"closed", "open", "half-open"}
    /\ breaker.state = "closed" => breaker.failures < failure_threshold
    /\ breaker.state \in {"open", "half-open"} =>
          breaker.failures >= failure_threshold

\* A half-open breaker whose count has passed the threshold (a failure was
\* recorded while it was open).
C33_Witness ==
    /\ pc = "breaker"
    /\ breaker.state = "half-open"
    /\ breaker.failures > failure_threshold

\* C34: in every reachable half-open state more than reset_timeout, and so
\* more than half_open_timeout, has elapsed since last_failure_time, and
\* can_execute() returns true and leaves the breaker half-open, however many
\* times it is called.
C34_HalfOpenAdmitsEveryProbe ==
    breaker.state = "half-open" =>
       /\ reset_timeout >= half_open_timeout
       /\ now - breaker.last_failure_time > reset_timeout
       /\ can_execute(breaker, now).ret
       /\ can_execute(breaker, now).cb = breaker

\* can_execute() has returned true on a breaker that was half-open already.
C34_Witness ==
    /\ pc = "breaker"
    /\ breaker.state = "half-open"
    /\ hist.before.state = "half-open"
    /\ last.op = "can_execute"
    /\ last.ret = "true"

\* C35: every record_failure() sets last_failure_time to now, also on an
\* open breaker, and nothing else changes last_failure_time; the breaker
\* leaves open only when more than reset_timeout has elapsed since then.
C35_EveryFailureRestartsTimeout ==
    /\ [][CbRecordFailure => breaker'.last_failure_time = now]_vars
    /\ [][breaker'.last_failure_time # breaker.last_failure_time =>
             CbRecordFailure]_vars
    /\ [][(breaker.state = "open" /\ breaker'.state # "open") =>
             now - breaker.last_failure_time > reset_timeout]_vars

\* A failure recorded on a breaker that was open already, later than the
\* failure before it, has moved last_failure_time to now.
C35_Witness ==
    /\ pc = "breaker"
    /\ last.op = "record_failure"
    /\ hist.before.state = "open"
    /\ breaker.state = "open"
    /\ breaker.last_failure_time = now
    /\ now > hist.before.last_failure_time

\* C38: through process_batch every rate check is made with tokens = 0, so
\* tokens_used stays 0, and with tokens_per_minute > 0 a request is denied
\* only by the breaker or by requests_per_minute, never by the token quota.
C38_TokenQuotaNeverDenies ==
    /\ [](request_manager.tokens_used = 0)
    /\ [][((Offer \/ Resume) /\ last'.ret = "false") =>
             \/ ~can_execute(breaker, now).ret
             \/ request_manager.requests_made >=
                   request_manager.rate_limits.requests_per_minute]_vars

\* With tokens_per_minute = 1 one request has been admitted and a later one
\* denied by requests_per_minute.
C38_Witness ==
    /\ request_manager.rate_limits.tokens_per_minute = 1
    /\ last.op = "acquire_permit"
    /\ last.ret = "false"
    /\ breaker.state = "closed"
    /\ request_manager.requests_made =
          request_manager.rate_limits.requests_per_minute
    /\ \E r \in Requests : task[r].acquired = 1

\* C36: with every collaborator call finishing, a process_batch run that has
\* started comes to its return: no wait on the gate, on the breaker or on the
\* pause between chunks lasts for ever, also when a chunk holds more requests
\* than the gate has slots and when requests are denied.
C36_BatchTerminates ==
    (pc # "idle") ~> (pc = "done")

\* A run that returned after a chunk wider than the gate: both requests of
\* the first chunk were admitted through a gate of one slot, so the second one
\* waited for the slot, and a later request was denied.
C36_Witness ==
    /\ pc = "done"
    /\ request_manager.max_concurrent = 1
    /\ request_manager.chunk_size = 2
    /\ Len(requests) >= 3
    /\ task[1].acquired = 1
    /\ task[2].acquired = 1
    /\ \E r \in Requests : task[r].denied = 1

\* C32 as stated: a process_batch started on a processor whose breaker is open
\* and whose reset_timeout has not elapsed acquires no permit and calls the
\* collaborator for none of its requests.
C32_OpenBreakerDeniesWholeBatch ==
    (/\ hist.batches = 1
     /\ hist.inherited.state = "open"
     /\ hist.since - hist.inherited.last_failure_time <= reset_timeout)
    => \A r \in Requests : task[r].acquired = 0 /\ task[r].calls = 0

\* C32, amended: neither the scope exit of one process_batch nor the start of
\* the next one changes the breaker or the rate-window counters, and the start
\* sets stats to zero but for total_chunks; a process_batch that finds the
\* breaker open denies, without a call, every request it has offered for as
\* long as reset_timeout has not elapsed since the last failure, and its
\* responses are then all permit denials.
C32_StateOutlivesBatch ==
    /\ [][(ExitBatch \/ \E n \in 0..MaxRequests : Again(n)) =>
             /\ breaker' = breaker
             /\ request_manager'.requests_made = request_manager.requests_made
             /\ request_manager'.tokens_used = request_manager.tokens_used
             /\ request_manager'.last_reset = request_manager.last_reset]_vars
    /\ [][(\E n \in 0..MaxRequests : Again(n)) =>
             stats' = [Stats0 EXCEPT !.total_chunks = Len(chunks')]]_vars
    /\ []((/\ hist.batches = 1
           /\ hist.inherited.state = "open"
           /\ now - hist.inherited.last_failure_time <= reset_timeout)
          => /\ breaker = hist.inherited
             /\ \A r \in Requests : task[r].acquired = 0 /\ task[r].calls = 0
             /\ stats.processed = 0
             /\ pc = "done" =>
                   /\ Len(all_responses) = Len(requests)
                   /\ \A k \in 1..Len(all_responses) :
                         all_responses[k] = APIResponse(k, FALSE, "permit"))

\* A second run that started later than the failure that opened the breaker,
\* within reset_timeout, and returned a denial for each of its requests.
C32_Witness ==
    /\ hist.batches = 1
    /\ hist.inherited.state = "open"
    /\ hist.since > hist.inherited.last_failure_time
    /\ now - hist.inherited.last_failure_time <= reset_timeout
    /\ pc = "done"
    /\ Len(requests) >= 2
    /\ \A r \in Requests : task[r].denied = 1
    /\ stats.processed = 0

\* C37: once a second process_batch run has been called while a first one is
\* under way on the same processor, both runs come to their return, each with
\* one response for each request of its own list.
C37_BothRunsReturn ==
    (other.pc # "none") ~>
        (/\ pc = "done"
         /\ other.pc = "returned"
         /\ Len(all_responses) = Len(requests)
         /\ Len(other.responses) = 1)

====
